---- MODULE Spec2Model ----
(***************************************************************************)
(* Model of tutorial/chapter2.5/sample/sqlalchemy_tutorial.ipynb: the      *)
(* declared schema (users, items, roles, user_roles), the session factory  *)
(* and the notebook's cells, each run against the committed tables of the   *)
(* database: a cell opens a session, runs its try block, and on a failure   *)
(* rolls back, re-raises and leaves the with block.                         *)
(***************************************************************************)
EXTENDS Integers, Sequences, FiniteSets, Bags, TLC

\* ---------------------------------------------------------------- bounds
MaxUsers == 2       \* highest id the users table hands out
MaxItems == 2       \* highest id the items table hands out
MaxUserRoles == 2   \* most rows the user_roles table holds
MaxInsert == 1      \* most users, and most roles, one insert cell adds
MaxList == 2        \* most roles a cell puts into roles collections
MaxSessions == 2    \* most sessions open at the same time, one of them running

\* ------------------------------------------------------------ value sets
None == 0                   \* Python None / SQL NULL in an integer column
NullStr == "<NULL>"         \* Python None / SQL NULL in a string column
NoExc == "-"                \* no exception

UserNames == {"yamada", "sato"}
NewUserName == "midorikawa" \* the username the rename cell assigns
RoleType == {"SYSTEM_ADMIN", "LOCATION_ADMIN", "LOCATION_OPERATOR"}
OtherRoleName == "GUEST"    \* a string that is no member of RoleType

Range(s) == {s[i] : i \in 1..Len(s)}

SeqsUpTo(S, n) == UNION {[1..k -> S] : k \in 0..n}

\* ---------------------------------------------------------------- schema
\* cascade of User.items: does deleting a user delete its items
UserItemsCascade == "all, delete-orphan"

CascadesDelete(cascade) == cascade \in {"all", "all, delete-orphan", "delete"}

\* the tables right after Base.metadata.create_all(engine), with the
\* AUTO_INCREMENT value the next row gets; user_roles is the bag of its rows
\* without their id, which nothing refers to
EmptyDb ==
    [users |-> {}, items |-> {}, roles |-> {}, user_roles |-> EmptyBag,
     autoinc |-> [users |-> 1, items |-> 1, roles |-> 1]]

UserRow(id, username) == [id |-> id, username |-> username]
ItemRow(id, user_id) == [id |-> id, user_id |-> user_id]
RoleRow(id, name) == [id |-> id, name |-> name]
UserRoleRow(user_id, role_id) == [user_id |-> user_id, role_id |-> role_id]

\* a username column that is nullable=False and not unique
UsernameOk_NotUnique(t, id, username) == username # NullStr

\* users.username: unique=True, nullable=False
UsernameOk(t, id, username) ==
    /\ username # NullStr
    /\ \A u \in t.users : u.id # id => u.username # username

\* items.user_id: ForeignKey("users.id"), nullable=False
ItemUserIdOk(t, user_id) ==
    /\ user_id # None
    /\ \E u \in t.users : u.id = user_id

\* items.title: nullable=False
ItemTitleOk(title) == title # NullStr

\* a name column that is unique and takes any string
RoleNameOk_AnyString(t, name) == \A r \in t.roles : r.name # name

\* roles.name: Enum(RoleType), unique=True, nullable=False
RoleNameOk(t, name) ==
    /\ name \in RoleType
    /\ \A r \in t.roles : r.name # name

\* a user_roles table without its UniqueConstraint
UserRoleOk_NotUnique(t, user_id, role_id) ==
    /\ \E u \in t.users : u.id = user_id
    /\ \E r \in t.roles : r.id = role_id

\* user_roles: UniqueConstraint("user_id", "role_id"), both columns foreign
\* keys and nullable=False
UserRoleOk(t, user_id, role_id) ==
    /\ \E u \in t.users : u.id = user_id
    /\ \E r \in t.roles : r.id = role_id
    /\ ~BagIn(UserRoleRow(user_id, role_id), t.user_roles)

\* referential integrity of the whole database, as InnoDB checks a DELETE
ForeignKeysOk(t) ==
    /\ \A i \in t.items : \E u \in t.users : u.id = i.user_id
    /\ \A ur \in BagToSet(t.user_roles) :
          /\ \E u \in t.users : u.id = ur.user_id
          /\ \E r \in t.roles : r.id = ur.role_id

\* ------------------------------------------------------ relationship reads
\* User.items: the items whose user_id is the user's id
ItemsOf(t, uid) == {i \in t.items : i.user_id = uid}

\* User.roles through secondary="user_roles": ids of the user's roles
RolesOf(t, uid) ==
    {ur.role_id : ur \in {x \in BagToSet(t.user_roles) : x.user_id = uid}}

RECURSIVE SortedSeq(_)
SortedSeq(S) ==
    IF S = {} THEN <<>>
    ELSE LET m == CHOOSE x \in S : \A y \in S : x <= y
         IN  <<m>> \o SortedSeq(S \ {m})

\* session.query(User).filter(User.id == id).first()
QueryUserById(t, id) ==
    IF \E u \in t.users : u.id = id THEN id ELSE None

\* session.query(User).filter(User.username == name).first()
QueryUserByName(t, name) ==
    IF \E u \in t.users : u.username = name
    THEN (CHOOSE u \in t.users : u.username = name).id
    ELSE None

\* session.query(Role).filter(Role.name == name).first()
QueryRoleByName(t, name) ==
    IF \E r \in t.roles : r.name = name
    THEN (CHOOSE r \in t.roles : r.name = name).id
    ELSE None

\* ------------------------------------------------------- model instances
\* a transient or pending instance of User, Role or Item; parent is the id
\* of the User whose items collection holds an Item, viaAdd tells whether
\* the instance itself was handed to session.add()
UserInst(username, viaAdd) ==
    [kind |-> "User", username |-> username, name |-> NullStr,
     user_id |-> None, title |-> NullStr, parent |-> None, viaAdd |-> viaAdd]

RoleInst(name, viaAdd) ==
    [kind |-> "Role", username |-> NullStr, name |-> name,
     user_id |-> None, title |-> NullStr, parent |-> None, viaAdd |-> viaAdd]

ItemInst(user_id, title, parent, viaAdd) ==
    [kind |-> "Item", username |-> NullStr, name |-> NullStr,
     user_id |-> user_id, title |-> title, parent |-> parent, viaAdd |-> viaAdd]

\* the session's unit of work: pending instances, changed usernames, changed
\* roles collections, instances marked deleted
EmptyUow == [new |-> <<>>, renamed |-> {}, coll |-> {}, delUsers |-> {}, delItems |-> {}]

\* ----------------------------------------------------------------- flush
\* the row a statement was about: its table, its string column, its user_id
\* (the id for a users row), its role_id
Row(table, str, user_id, role_id) ==
    [table |-> table, str |-> str, user_id |-> user_id, role_id |-> role_id]

NoRow == Row("-", NullStr, None, None)

\* the outcome of a flush or of a part of it: the tables it wrote, and when
\* it raised, the exception and the row of the statement the exception names
Ok(t) == [ok |-> TRUE, db |-> t, err |-> NoExc, row |-> NoRow]
Err(t, e, row) == [ok |-> FALSE, db |-> t, err |-> e, row |-> row]

\* INSERT INTO users
InsertUser(t, o) ==
    IF UsernameOk(t, None, o.username)
    THEN Ok([t EXCEPT !.users = @ \cup {UserRow(t.autoinc.users, o.username)},
                      !.autoinc.users = @ + 1])
    ELSE Err(t, "IntegrityError", Row("users", o.username, None, None))

\* INSERT INTO roles
InsertRole(t, o) ==
    IF RoleNameOk(t, o.name)
    THEN Ok([t EXCEPT !.roles = @ \cup {RoleRow(t.autoinc.roles, o.name)},
                      !.autoinc.roles = @ + 1])
    ELSE Err(t, IF o.name \in RoleType THEN "IntegrityError" ELSE "DataError",
             Row("roles", o.name, None, None))

\* an Item that keeps its own user_id attribute whatever collection holds it
ItemUserId_Own(o) == o.user_id

\* the user_id an Item is inserted with: an Item held by a user's items
\* collection gets the parent's id, any other Item keeps its own attribute
ItemUserId(o) == IF o.parent # None THEN o.parent ELSE o.user_id

\* INSERT INTO items
InsertItem(t, o) ==
    IF ItemUserIdOk(t, ItemUserId(o)) /\ ItemTitleOk(o.title)
    THEN Ok([t EXCEPT !.items = @ \cup {ItemRow(t.autoinc.items, ItemUserId(o))},
                      !.autoinc.items = @ + 1])
    ELSE Err(t, "IntegrityError", Row("items", o.title, ItemUserId(o), None))

InsertInst(t, o) ==
    CASE o.kind = "User" -> InsertUser(t, o)
      [] o.kind = "Role" -> InsertRole(t, o)
      [] OTHER -> InsertItem(t, o)

\* after the outcome r of one INSERT: the rest of the pending instances, or
\* the exception of r
RECURSIVE InsertAll(_, _)
InsertRest(r, rest) == IF r.ok THEN InsertAll(r.db, rest) ELSE r

\* a flush that writes no pending instance
InsertAll_Nothing(t, new) == Ok(t)

\* the pending instances are inserted in the order they entered the session
InsertAll(t, new) ==
    IF new = <<>> THEN Ok(t)
    ELSE InsertRest(InsertInst(t, Head(new)), Tail(new))

\* an UPDATE of the username without its WHERE clause
UpdateUsername_EveryRow(t, id, username) ==
    Ok([t EXCEPT !.users = {UserRow(u.id, username) : u \in @}])

\* UPDATE users SET username = ... WHERE id = ...
UpdateUsername(t, id, username) ==
    IF UsernameOk(t, id, username)
    THEN Ok([t EXCEPT !.users = {IF u.id = id THEN UserRow(id, username) ELSE u : u \in @}])
    ELSE Err(t, "IntegrityError", Row("users", username, id, None))

\* the changed username of the lowest user id
FirstRenamed(renamed) == CHOOSE x \in renamed : \A y \in renamed : x.id <= y.id

RECURSIVE UpdateAll(_, _)
\* after the outcome r of the UPDATE for c: the other changed usernames
UpdateRest(r, renamed, c) == IF r.ok THEN UpdateAll(r.db, renamed \ {c}) ELSE r

UpdateFrom(t, renamed, c) ==
    UpdateRest(UpdateUsername(t, c.id, c.username), renamed, c)

UpdateAll(t, renamed) ==
    IF renamed = {} THEN Ok(t) ELSE UpdateFrom(t, renamed, FirstRenamed(renamed))

\* INSERT INTO user_roles (user_id, role_id), one row for each element that
\* was added to the collection
RECURSIVE InsertUserRoles(_, _, _)
InsertUserRoles(t, uid, added) ==
    IF added = <<>> THEN Ok(t)
    ELSE IF UserRoleOk(t, uid, Head(added))
         THEN InsertUserRoles(
                  [t EXCEPT !.user_roles = @ (+) SetToBag({UserRoleRow(uid, Head(added))})],
                  uid, Tail(added))
         ELSE Err(t, "IntegrityError", Row("user_roles", NullStr, uid, Head(added)))

\* DELETE FROM user_roles WHERE the row is one of rows
WithoutRows(b, rows) == [r \in BagToSet(b) \ rows |-> b[r]]

\* the elements of the collection that the database does not hold yet
AddedRoles(t, uid, cur) == SelectSeq(cur, LAMBDA r : r \notin RolesOf(t, uid))

\* a collection whose replaced elements are never deleted
RemovedRoles_Never(t, uid, cur) == {}

\* the roles the database holds and the collection no longer does
RemovedRoles(t, uid, cur) == RolesOf(t, uid) \ Range(cur)

\* User.roles (secondary="user_roles"): the flush of one changed collection
SyncRoles(t, uid, cur) ==
    IF None \in Range(cur) THEN Err(t, "FlushError", Row("user_roles", NullStr, uid, None))
    ELSE InsertUserRoles(
             [t EXCEPT !.user_roles =
                 WithoutRows(@, {UserRoleRow(uid, r) : r \in RemovedRoles(t, uid, cur)})],
             uid, AddedRoles(t, uid, cur))

\* the changed collection of the lowest user id
FirstColl(coll) == CHOOSE x \in coll : \A y \in coll : x.user <= y.user

RECURSIVE SyncAll(_, _)
\* after the outcome r of the flush of the collection c: the other collections
SyncRest(r, coll, c) == IF r.ok THEN SyncAll(r.db, coll \ {c}) ELSE r

SyncFrom(t, coll, c) == SyncRest(SyncRoles(t, c.user, c.cur), coll, c)

SyncAll(t, coll) ==
    IF coll = {} THEN Ok(t) ELSE SyncFrom(t, coll, FirstColl(coll))

\* a delete of items that takes the users that own them with it
DeleteItemRows_WithOwner(t, ids) ==
    [t EXCEPT !.items = {i \in @ : i.id \notin ids},
              !.users = {u \in @ : \A i \in t.items : i.id \in ids => i.user_id # u.id}]

\* DELETE FROM items WHERE id = ...
DeleteItemRows(t, ids) == [t EXCEPT !.items = {i \in @ : i.id \notin ids}]

\* a cascade that takes every item, whoever owns it
CascadedItems_Every(t, uid) == t.items

\* the Item rows a delete of the user takes with it
CascadedItems(t, uid) ==
    IF CascadesDelete(UserItemsCascade) THEN ItemsOf(t, uid) ELSE {}

\* the tables t1 the DELETE statements for the user uid leave, if no row
\* refers to a row that is gone
DeleteChecked(t, uid, t1) ==
    IF ForeignKeysOk(t1) THEN Ok(t1)
    ELSE Err(t, "IntegrityError", Row("users", NullStr, uid, None))

\* a delete of the users row alone, with no cascade and no foreign key
DeleteUser_RowOnly(t, uid) == Ok([t EXCEPT !.users = {u \in @ : u.id # uid}])

\* session.delete(user): the user's items (cascade), its user_roles rows
\* (secondary) and then the users row
DeleteUser(t, uid) ==
    DeleteChecked(t, uid,
        [t EXCEPT !.items = @ \ CascadedItems(t, uid),
                  !.user_roles = WithoutRows(@, {ur \in BagToSet(@) : ur.user_id = uid}),
                  !.users = {u \in @ : u.id # uid}])

\* the lowest of the user ids
FirstUser(uids) == CHOOSE x \in uids : \A y \in uids : x <= y

RECURSIVE DeleteUsers(_, _)
\* after the outcome r of the delete of the user c: the other users
DeleteRest(r, uids, c) == IF r.ok THEN DeleteUsers(r.db, uids \ {c}) ELSE r

DeleteFrom(t, uids, c) == DeleteRest(DeleteUser(t, c), uids, c)

DeleteUsers(t, uids) ==
    IF uids = {} THEN Ok(t) ELSE DeleteFrom(t, uids, FirstUser(uids))

\* Session.flush(): the unit of work written to the open transaction
FlushUpdates(r, u) == IF r.ok THEN UpdateAll(r.db, u.renamed) ELSE r

FlushCollections(r, u) == IF r.ok THEN SyncAll(r.db, u.coll) ELSE r

FlushItemDeletes(r, u) == IF r.ok THEN Ok(DeleteItemRows(r.db, u.delItems)) ELSE r

FlushUserDeletes(r, u) == IF r.ok THEN DeleteUsers(r.db, u.delUsers) ELSE r

Flush(t, u) ==
    FlushUserDeletes(
        FlushItemDeletes(
            FlushCollections(
                FlushUpdates(InsertAll(t, u.new), u), u), u), u)

\* ------------------------------------------------------------------ state
VARIABLES
    db,         \* the committed tables, what a new session reads
    open,       \* handles of the sessions that are open
    session,    \* the session of the running cell, None between cells
    pc,         \* position in the running cell, "idle" between cells
    loc,        \* the running cell's variables and what it has done so far
    exc         \* the exception in flight, NoExc when there is none

vars == <<db, open, session, pc, loc, exc>>

\* cell: the running cell; user, user2: the User instances the cell loaded;
\* seen: the items it printed after refresh; failed: the exception a
\* statement of its try block raised; e: the exception its except clause
\* caught; rolledBack: rollback() was called; pre: the committed tables when
\* the cell began; uow: the unit of work its commit made permanent; row: the
\* row of the statement the exception of a flush names; commits: the commits
\* that went through
NoLoc ==
    [cell |-> "-", user |-> None, user2 |-> None, seen |-> {},
     failed |-> NoExc, e |-> NoExc, rolledBack |-> FALSE,
     pre |-> EmptyDb, uow |-> EmptyUow, row |-> NoRow, commits |-> 0]

\* the state after Base.metadata.create_all(engine): four empty tables
Init ==
    /\ db = EmptyDb
    /\ open = {}
    /\ session = None
    /\ pc = "idle"
    /\ loc = NoLoc
    /\ exc = NoExc

\* the tables stay within the bounds of the model
InBound(t) ==
    /\ t.autoinc.users <= MaxUsers + 1
    /\ t.autoinc.items <= MaxItems + 1
    /\ BagCardinality(t.user_roles) <= MaxUserRoles

\* SessionLocal(): a new session, autocommit=False
SessionLocal(cell, next) ==
    /\ pc = "idle"
    /\ LET h == CHOOSE x \in 1..MaxSessions :
                    x \notin open /\ \A y \in 1..MaxSessions : y \notin open => x <= y
       IN  /\ open' = open \cup {h}
           /\ session' = h
    /\ pc' = next
    /\ loc' = [NoLoc EXCEPT !.cell = cell, !.pre = db]
    /\ exc' = NoExc
    /\ UNCHANGED db

\* session.close(): the transaction is released, nothing is committed
SessionClose ==
    /\ open' = open \ {session}
    /\ session' = None
    /\ UNCHANGED db

\* the try block ends normally, the committed tables being d
Done(d, l) ==
    /\ db' = d
    /\ loc' = l
    /\ exc' = NoExc
    /\ pc' = "exit"
    /\ UNCHANGED <<open, session>>

\* a statement of the try block raises e, the committed tables being d: the
\* except clause is next
Raises(e, d, l) ==
    /\ db' = d
    /\ loc' = [l EXCEPT !.failed = e]
    /\ exc' = e
    /\ pc' = "except"
    /\ UNCHANGED <<open, session>>

\* the local variables after the commit of u: what the cell printed after
\* its refresh, where it has one
AfterCommit(d, u, l, refresh) ==
    [l EXCEPT !.uow = u, !.commits = @ + 1,
              !.seen = IF refresh THEN ItemsOf(d, l.user) ELSE @]

\* the flush r of u went through and so did COMMIT: the cell goes on, and
\* its refresh may raise
CommitOk(r, u, l, refresh) ==
    /\ r.ok
    /\ InBound(r.db)
    /\ \/ Done(r.db, AfterCommit(r.db, u, l, refresh))
       \/ /\ refresh
          /\ Raises("OperationalError", r.db,
                    [loc EXCEPT !.uow.new = u.new, !.commits = @ + 1])

\* the flush r raised, or it went through and COMMIT raised: the transaction
\* has been rolled back
CommitRaises(r) ==
    \/ /\ r.ok
       /\ InBound(r.db)
       /\ Raises("OperationalError", db, loc)
    \/ /\ ~r.ok
       /\ Raises(r.err, db, [loc EXCEPT !.row = r.row])

\* a session in which every statement of the flush is committed as it is
\* executed, so a failing flush or COMMIT leaves what was written before it
SessionCommit_Autocommit(u, l, refresh) ==
    \/ CommitOk(Flush(db, u), u, l, refresh)
    \/ /\ InBound(Flush(db, u).db)
       /\ Raises("OperationalError", Flush(db, u).db, loc)

\* session.commit() of the unit of work u, flush and then COMMIT, followed
\* by session.refresh(user) and print where the cell has them. A flush or
\* a COMMIT that raises has rolled the transaction back.
SessionCommit(u, l, refresh) ==
    \/ CommitOk(Flush(db, u), u, l, refresh)
    \/ CommitRaises(Flush(db, u))

\* ------------------------------------------- cell a7388003: a bare session
Demo_SessionLocal == SessionLocal("demo", "demo_execute")

\* session.execute(text("SELECT 'OK'")): when it raises the cell ends here
\* and session.close() is not reached
Demo_Execute ==
    /\ pc = "demo_execute"
    /\ \/ /\ pc' = "demo_close"
          /\ UNCHANGED <<loc, session>>
       \/ /\ Cardinality(open) < MaxSessions
          /\ pc' = "idle"
          /\ loc' = NoLoc
          /\ session' = None
    /\ UNCHANGED <<db, open, exc>>

\* session.close()
Demo_Close ==
    /\ pc = "demo_close"
    /\ SessionClose
    /\ pc' = "idle"
    /\ loc' = NoLoc
    /\ exc' = NoExc

\* ------------------------------------ the except clause and the with exit
\* except Exception as e: session.rollback()
Except_Rollback ==
    /\ pc = "except"
    /\ loc' = [loc EXCEPT !.e = exc, !.rolledBack = TRUE]
    /\ exc' = NoExc
    /\ pc' = "raise"
    /\ UNCHANGED <<db, open, session>>

\* raise e
Except_Raise ==
    /\ pc = "raise"
    /\ exc' = loc.e
    /\ pc' = "exit"
    /\ UNCHANGED <<db, open, session, loc>>

\* the end of the with block: the session is closed, with or without an
\* exception passing through
With_Exit ==
    /\ pc = "exit"
    /\ SessionClose
    /\ pc' = "idle"
    /\ loc' = NoLoc
    /\ exc' = NoExc

\* ---------------------------------- cell 13b39a95: insert users and roles
Insert_With == SessionLocal("insert", "insert_try")

\* users = [...], roles = [...]; session.add(user) and session.add(role) for
\* each of them; session.commit()
Insert_Try ==
    /\ pc = "insert_try"
    /\ \E names \in SeqsUpTo(UserNames \cup {NullStr}, MaxInsert),
          rnames \in SeqsUpTo(RoleType \cup {OtherRoleName}, MaxInsert) :
          SessionCommit(
              [EmptyUow EXCEPT !.new =
                  [i \in 1..Len(names) |-> UserInst(names[i], TRUE)]
                  \o [i \in 1..Len(rnames) |-> RoleInst(rnames[i], TRUE)]],
              loc, FALSE)

\* --------------------------------- cell 3760a0c0: insert an item, user_id
Item1_With == SessionLocal("item1", "item1_try")

\* yamada = session.query(User).filter(User.id == 1).first()
\* item = Item(title="a", content="foo", user_id=yamada.id)
\* session.add(item); session.commit(); session.refresh(yamada); print
Item1_Try ==
    /\ pc = "item1_try"
    /\ \/ Raises("OperationalError", db, loc)
       \/ \E uid \in 1..MaxUsers :
             LET l == [loc EXCEPT !.user = QueryUserById(db, uid)]
             IN  IF l.user = None
                 THEN Raises("AttributeError", db, loc)
                 ELSE SessionCommit(
                          [EmptyUow EXCEPT !.new = <<ItemInst(l.user, "a", None, TRUE)>>],
                          l, TRUE)

\* ----------------------------------- cell 8185d2a6: insert an item, append
Item2_With == SessionLocal("item2", "item2_try")

\* sato = session.query(User).filter(User.id == 2).first()
\* item = Item(title="c", content="baz"); sato.items.append(item): the item
\* enters the session of its parent by the save-update cascade
\* session.add(sato); session.commit(); session.refresh(sato); print
Item2_Try ==
    /\ pc = "item2_try"
    /\ \/ Raises("OperationalError", db, loc)
       \/ \E uid \in 1..MaxUsers :
             LET l == [loc EXCEPT !.user = QueryUserById(db, uid)]
             IN  IF l.user = None
                 THEN Raises("AttributeError", db, loc)
                 ELSE SessionCommit(
                          [EmptyUow EXCEPT !.new = <<ItemInst(None, "c", l.user, FALSE)>>],
                          l, TRUE)

\* ------------------------------------------ cell ea17f826: assign roles
Roles_With == SessionLocal("roles", "roles_try")

\* the list of Role instances (None for a role the query did not find)
RoleList(t, names) == [i \in 1..Len(names) |-> QueryRoleByName(t, names[i])]

\* yamada.roles = [...]: the collection is replaced
AssignRoles(t, u, uid, names) ==
    [u EXCEPT !.coll = {c \in @ : c.user # uid}
                          \cup {[user |-> uid, cur |-> RoleList(t, names)]}]

\* sato.roles.append(...), once for each name: the collection is loaded and
\* the roles are put at its end
AppendRoles(t, u, uid, names) ==
    IF names = <<>> THEN u
    ELSE [u EXCEPT !.coll = {c \in @ : c.user # uid}
                          \cup {[user |-> uid,
                                 cur |-> SortedSeq(RolesOf(t, uid)) \o RoleList(t, names)]}]

\* yamada, sato = the users of these usernames; the three Role queries;
\* yamada.roles = [sys_admin, loc_opr]; sato.roles.append(loc_admin);
\* sato.roles.append(loc_opr); session.add(yamada); session.add(sato);
\* session.commit(); refresh and print both
Roles_Try ==
    /\ pc = "roles_try"
    /\ \/ Raises("OperationalError", db, loc)
       \/ \E n1 \in {"yamada"} : \E n2 \in {"sato"} :
          \E names1 \in SeqsUpTo(RoleType, MaxList) :
          \E names2 \in SeqsUpTo(RoleType, MaxList) :
             LET l == [loc EXCEPT !.user = QueryUserByName(db, n1),
                                  !.user2 = QueryUserByName(db, n2)]
                 u1 == AssignRoles(db, EmptyUow, l.user, names1)
                 u2 == AppendRoles(db, u1, l.user2, names2)
             IN  /\ Len(names1) + Len(names2) <= MaxList
                 /\ IF l.user = None \/ (l.user2 = None /\ names2 # <<>>)
                    THEN Raises("AttributeError", db, loc)
                    ELSE SessionCommit(u2, l, TRUE)

\* ------------------------------------------- cell 88feba46: rename a user
Rename_With == SessionLocal("rename", "rename_try")

\* user2 = session.query(User).filter(User.id == 2).first()
\* user2.username = "midorikawa"; session.add(user2); session.commit()
Rename_Try ==
    /\ pc = "rename_try"
    /\ \/ Raises("OperationalError", db, loc)
       \/ \E uid \in 1..MaxUsers : \E name \in UserNames \cup {NewUserName, NullStr} :
             LET l == [loc EXCEPT !.user = QueryUserById(db, uid)]
             IN  IF l.user = None
                 THEN Raises("AttributeError", db, loc)
                 ELSE SessionCommit(
                          [EmptyUow EXCEPT !.renamed = {[id |-> l.user, username |-> name]}],
                          l, FALSE)

\* ----------------------------------- cell ae4476ac: queries inside a try
Select_With == SessionLocal("select", "select_try")

\* the four queries and prints
Select_Try ==
    /\ pc = "select_try"
    /\ \/ Done(db, loc)
       \/ Raises("OperationalError", db, loc)
       \/ /\ \E uid \in 1..MaxUsers : QueryUserById(db, uid) = None
          /\ Raises("AttributeError", db, loc)    \* user2.items of None

\* ------------- cells 53ddf2e7, ac804906, f1ceb79d, b71dfcb3, b2f53a81:
\* queries in a with block that has no try
Check_With == SessionLocal("check", "check_query")

\* an exception goes straight to the end of the with block
Check_Query ==
    /\ pc = "check_query"
    /\ pc' = "exit"
    /\ \/ exc' = NoExc /\ UNCHANGED loc
       \/ exc' = "OperationalError" /\ loc' = [loc EXCEPT !.failed = "OperationalError"]
    /\ UNCHANGED <<db, open, session>>

\* ------------------------------------------- cell 5c1979d4: delete a user
DelUser_With == SessionLocal("deluser", "deluser_try")

\* user1 = session.query(User).filter(User.id == 1).first()
\* session.delete(user1); session.commit()
DelUser_Try ==
    /\ pc = "deluser_try"
    /\ \/ Raises("OperationalError", db, loc)
       \/ \E uid \in 1..MaxUsers :
             LET l == [loc EXCEPT !.user = QueryUserById(db, uid)]
             IN  IF l.user = None
                 THEN Raises("UnmappedInstanceError", db, loc)
                 ELSE SessionCommit([EmptyUow EXCEPT !.delUsers = {l.user}], l, FALSE)

\* ------------------------------- cell 0b52d453: delete the items of a user
DelItems_With == SessionLocal("delitems", "delitems_try")

\* the tables after the loop has deleted and committed the items of queue
RECURSIVE DeleteLoop(_, _)
DeleteLoop(t, queue) ==
    IF queue = <<>> THEN t
    ELSE DeleteLoop(Flush(t, [EmptyUow EXCEPT !.delItems = {Head(queue)}]).db, Tail(queue))

\* user2 = session.query(User).filter(User.id == 2).first()
\* for item in user2.items: session.delete(item); session.commit()
\* the collection is loaded once and the loop runs over that list; it ends
\* after all rounds, or in the commit of an earlier round
DelItems_Try ==
    /\ pc = "delitems_try"
    /\ \/ Raises("OperationalError", db, loc)
       \/ \E uid \in 1..MaxUsers :
             LET l == [loc EXCEPT !.user = QueryUserById(db, uid)]
                 queue == SortedSeq({i.id : i \in ItemsOf(db, l.user)})
             IN  IF l.user = None
                 THEN Raises("AttributeError", db, loc)
                 ELSE \E k \in 0..Len(queue) :
                         LET d == DeleteLoop(db, SubSeq(queue, 1, k))
                         IN  IF k = Len(queue)
                             THEN Done(d, [l EXCEPT !.commits = k])
                             ELSE Raises("OperationalError", d, [loc EXCEPT !.commits = k])

Next ==
    \/ Demo_SessionLocal \/ Demo_Execute \/ Demo_Close
    \/ Except_Rollback \/ Except_Raise \/ With_Exit
    \/ Insert_With \/ Insert_Try
    \/ Item1_With \/ Item1_Try
    \/ Item2_With \/ Item2_Try
    \/ Roles_With \/ Roles_Try
    \/ Rename_With \/ Rename_Try
    \/ Select_With \/ Select_Try
    \/ Check_With \/ Check_Query
    \/ DelUser_With \/ DelUser_Try
    \/ DelItems_With \/ DelItems_Try

Spec == Init /\ [][Next]_vars

\* ------------------------------------------------------------ properties
\* the cells that wrap their unit of work in try / except / raise
TryCells ==
    {"insert", "item1", "item2", "roles", "rename", "select", "deluser", "delitems"}

\* the running cell is at the end of its with block, its commit went through
\* and nothing was raised
Committed(cell) ==
    /\ pc = "exit"
    /\ loc.cell = cell
    /\ loc.commits = 1
    /\ exc = NoExc

UserIds(t) == {u.id : u \in t.users}

\* C1: after session.delete(user) and a commit that went through, the row of
\* the user and every Item row with its user_id are gone, and every Item row
\* of another user is there unchanged.
C1_CascadeDelete ==
    Committed("deluser") =>
        /\ db.users = {u \in loc.pre.users : u.id # loc.user}
        /\ \A i \in loc.pre.items : i.user_id = loc.user => i \notin db.items
        /\ \A i \in loc.pre.items : i.user_id # loc.user => i \in db.items
        /\ db.items \subseteq loc.pre.items

\* a user with items was deleted while another user's item was in the table
C1_Witness ==
    /\ Committed("deluser")
    /\ ItemsOf(loc.pre, loc.user) # {}
    /\ \E i \in loc.pre.items : i.user_id # loc.user

\* C2: when a statement of the try block of a unit-of-work cell fails,
\* rollback() has been called when the exception leaves the cell, the
\* exception that leaves is the one that was raised, and the committed tables
\* hold nothing of the unit of work that no commit had made permanent.
C2_RollbackBeforeReraise ==
    /\ (loc.cell \in TryCells /\ loc.failed # NoExc /\ loc.commits = 0) =>
           db = loc.pre
    /\ (pc = "exit" /\ loc.cell \in TryCells /\ loc.failed # NoExc) =>
           /\ loc.rolledBack
           /\ loc.e = loc.failed
           /\ exc = loc.failed

\* a flush failed on a role the database does not take, and the exception
\* has left the except clause
C2_Witness ==
    /\ pc = "exit"
    /\ loc.cell = "insert"
    /\ exc = "DataError"
    /\ loc.row.table = "roles"
    /\ loc.pre.users # {}

\* C3: in every committed state every Item row has a user_id that is not
\* null and is the id of exactly one User row.
C3_ItemOwnership ==
    \A i \in db.items :
        /\ i.user_id # None
        /\ Cardinality({u \in db.users : u.id = i.user_id}) = 1

\* a user that owned items was deleted and the table still holds an item
C3_Witness ==
    /\ Committed("deluser")
    /\ ItemsOf(loc.pre, loc.user) # {}
    /\ db.items # {}

\* the cell's flush inserted a user under a username the table already
\* held: in the unit of work a commit made permanent, or as the statement
\* that raised
DuplicateInsert ==
    \/ \E i \in 1..Len(loc.uow.new) :
          /\ loc.uow.new[i].kind = "User"
          /\ \E u \in loc.pre.users : u.username = loc.uow.new[i].username
    \/ /\ loc.cell = "insert"
       /\ loc.row.table = "users"
       /\ \E u \in loc.pre.users : u.username = loc.row.str

\* the cell's flush gave a user the username of another user
DuplicateRename ==
    \/ \E c \in loc.uow.renamed :
          \E u \in loc.pre.users : u.id # c.id /\ u.username = c.username
    \/ /\ loc.cell = "rename"
       /\ loc.row.table = "users"
       /\ \E u \in loc.pre.users : u.id # loc.row.user_id /\ u.username = loc.row.str

\* C4: in every committed state no username is null and no two User rows
\* share one; a commit that inserts a user, or renames one, to the username
\* of another existing user fails and leaves the users table as it was.
C4_UsernameUnique ==
    /\ \A u \in db.users : u.username # NullStr
    /\ \A u, v \in db.users : u.username = v.username => u = v
    /\ (DuplicateInsert \/ DuplicateRename) =>
           /\ loc.commits = 0
           /\ loc.failed = "IntegrityError"
           /\ db.users = loc.pre.users

\* a rename to the other user's username has failed
C4_Witness ==
    /\ pc = "exit"
    /\ loc.cell = "rename"
    /\ DuplicateRename

\* a roles collection held the same Role twice: in the unit of work a commit
\* made permanent, or the flush raised on the second INSERT of one row
SameRoleTwice ==
    \/ \E c \in loc.uow.coll :
          \E i, j \in 1..Len(c.cur) : i # j /\ c.cur[i] = c.cur[j]
    \/ /\ loc.cell = "roles"
       /\ loc.row.table = "user_roles"
       /\ loc.row.role_id # None
       /\ loc.failed = "IntegrityError"

\* C5: in every committed state user_roles holds at most one row for each
\* pair (user_id, role_id) and each row refers to an existing user and an
\* existing role, also after a commit of a roles collection that holds the
\* same Role more than once.
C5_UserRolesUnique ==
    \A ur \in BagToSet(db.user_roles) :
        /\ CopiesIn(ur, db.user_roles) = 1
        /\ ur.user_id \in UserIds(db)
        /\ ur.role_id \in {r.id : r \in db.roles}

\* the same Role was put twice into a collection, and the cell is over
C5_Witness ==
    /\ pc = "exit"
    /\ loc.cell = "roles"
    /\ SameRoleTwice
    /\ db.user_roles # EmptyBag

\* C6: at most one session is open at any moment, each session being closed
\* before the next is opened, on the failure path of every cell too.
C6_SerialSessions == Cardinality(open) <= 1

\* the cell's flush inserted a role whose name is no member of RoleType or
\* is the name of a row of the table: in the unit of work a commit made
\* permanent, or as the statement that raised
BadRoleInsert ==
    \/ \E i \in 1..Len(loc.uow.new) :
          /\ loc.uow.new[i].kind = "Role"
          /\ \/ loc.uow.new[i].name \notin RoleType
             \/ \E r \in loc.pre.roles : r.name = loc.uow.new[i].name
    \/ /\ loc.row.table = "roles"
       /\ \/ loc.row.str \notin RoleType
          \/ \E r \in loc.pre.roles : r.name = loc.row.str

\* C7: in every committed state each role's name is a member of RoleType and
\* no two roles share a name, so roles holds at most three rows; an insert of
\* a role with another name, or with a name already there, fails and leaves
\* the roles table as it was.
C7_RoleNameDomain ==
    /\ \A r \in db.roles : r.name \in RoleType
    /\ \A r, q \in db.roles : r.name = q.name => r = q
    /\ Cardinality(db.roles) <= 3
    /\ BadRoleInsert =>
           /\ loc.commits = 0
           /\ loc.failed \in {"IntegrityError", "DataError"}
           /\ db.roles = loc.pre.roles

\* an insert of a role that is already in a non-empty table has failed
C7_Witness ==
    /\ pc = "exit"
    /\ loc.cell = "insert"
    /\ BadRoleInsert
    /\ loc.pre.roles # {}
    /\ loc.failed = "IntegrityError"
    /\ loc.row.str \in RoleType

\* the cells whose unit of work creates instances
InsertCells == {"insert", "item1", "item2"}

\* the instances of the unit of work that were handed to session.add()
Added == {i \in 1..Len(loc.uow.new) : loc.uow.new[i].viaAdd}

\* the instances of the unit of work that are in the session: handed to
\* session.add(), or held by the items collection of a user of the session
InSession ==
    {i \in 1..Len(loc.uow.new) :
         loc.uow.new[i].viaAdd \/ loc.uow.new[i].parent # None}

\* the rows a later session sees that were not there when the cell began are
\* one row for each instance of S, with the instance's values
NewRowsAre(S) ==
    /\ {u.username : u \in db.users \ loc.pre.users}
           = {loc.uow.new[i].username : i \in {j \in S : loc.uow.new[j].kind = "User"}}
    /\ {r.name : r \in db.roles \ loc.pre.roles}
           = {loc.uow.new[i].name : i \in {j \in S : loc.uow.new[j].kind = "Role"}}
    /\ {x.user_id : x \in db.items \ loc.pre.items}
           = {ItemUserId(loc.uow.new[i]) : i \in {j \in S : loc.uow.new[j].kind = "Item"}}
    /\ Cardinality(db.users \ loc.pre.users)
           = Cardinality({j \in S : loc.uow.new[j].kind = "User"})
    /\ Cardinality(db.roles \ loc.pre.roles)
           = Cardinality({j \in S : loc.uow.new[j].kind = "Role"})
    /\ Cardinality(db.items \ loc.pre.items)
           = Cardinality({j \in S : loc.uow.new[j].kind = "Item"})

\* C8, as stated: the rows a later session sees are those of the instances
\* that were handed to session.add() in a session whose commit went through.
C8_AddedAndCommitted ==
    (loc.cell \in InsertCells) =>
        IF loc.commits = 1 THEN NewRowsAre(Added) ELSE db = loc.pre

\* C8: the rows a later session sees are those of the instances that were in
\* a session whose commit went through, put there by session.add() or by the
\* items collection of a user of that session; a session that is closed
\* without a commit that went through leaves the committed tables as they
\* were.
C8_InSessionAndCommitted ==
    (loc.cell \in InsertCells) =>
        IF loc.commits = 1 THEN NewRowsAre(InSession) ELSE db = loc.pre

\* an item that was appended to user.items, and never handed to add(), is a
\* row after the commit
C8_Witness ==
    /\ Committed("item2")
    /\ Added = {}
    /\ InSession # {}
    /\ db.items # loc.pre.items

\* the tables after method 1 for the user uid: Item(user_id=uid), add, commit
ByUserId(t, uid) ==
    Flush(t, [EmptyUow EXCEPT !.new = <<ItemInst(uid, "a", None, TRUE)>>])

\* the tables after method 2 for the user uid: Item(), items.append, commit
ByAppend(t, uid) ==
    Flush(t, [EmptyUow EXCEPT !.new = <<ItemInst(None, "c", uid, FALSE)>>])

\* C9: for every existing user both ways of adding an item commit the same
\* tables, and a cell that used either way ends with exactly one new Item
\* row, which has the user's id as its user_id and is among user.items after
\* the refresh, every other row being as it was.
C9_TwoWaysEquivalent ==
    /\ \A uid \in UserIds(db) :
           /\ ByUserId(db, uid).ok
           /\ ByAppend(db, uid).ok
           /\ ByUserId(db, uid).db = ByAppend(db, uid).db
    /\ (Committed("item1") \/ Committed("item2")) =>
           /\ \E x \in loc.seen :
                 /\ x.user_id = loc.user
                 /\ x \notin loc.pre.items
                 /\ db.items = loc.pre.items \cup {x}
           /\ db.users = loc.pre.users
           /\ db.roles = loc.pre.roles
           /\ db.user_roles = loc.pre.user_roles

\* an item was appended to the items of a user that already had an item
C9_Witness ==
    /\ Committed("item2")
    /\ ItemsOf(loc.pre, loc.user) # {}
    /\ Cardinality(loc.seen) = 2

\* the user_roles rows of the users of S
RowsOf(t, S) == [ur \in {x \in BagToSet(t.user_roles) : x.user_id \in S} |-> t.user_roles[ur]]

\* C10: after a commit of roles collections, set by list assignment or by
\* append, the user_roles rows of each user u of them are exactly one row
\* (u.id, r.id) for each role r of its collection, so that a later session
\* reads that collection; the roles table, the rows of every other user and
\* the other tables are as they were.
C10_RolesWithoutJoinTable ==
    Committed("roles") =>
        /\ \A c \in loc.uow.coll :
              /\ RolesOf(db, c.user) = Range(c.cur)
              /\ Range(c.cur) \subseteq {r.id : r \in loc.pre.roles}
              /\ \A r \in Range(c.cur) : CopiesIn(UserRoleRow(c.user, r), db.user_roles) = 1
        /\ LET others == UserIds(db) \ {c.user : c \in loc.uow.coll}
           IN  RowsOf(db, others) = RowsOf(loc.pre, others)
        /\ db.roles = loc.pre.roles
        /\ db.users = loc.pre.users
        /\ db.items = loc.pre.items

\* one user's roles were replaced by a list and a role was appended to the
\* roles of the other
C10_Witness ==
    /\ Committed("roles")
    /\ Cardinality(loc.uow.coll) = 2
    /\ \A c \in loc.uow.coll : c.cur # <<>>
    /\ \E c \in loc.uow.coll : RolesOf(loc.pre, c.user) \ Range(c.cur) # {}

\* the loop of the delete-items cell went through all items of the user
LoopDone ==
    /\ pc = "exit"
    /\ loc.cell = "delitems"
    /\ loc.failed = NoExc
    /\ exc = NoExc

\* C11: after the loop that deletes and commits each item of user.items has
\* ended without an error, no Item row of the user is left, however many it
\* had, and the row of the user, its username, its user_roles rows and every
\* row of another user are as they were.
C11_DeleteItemsKeepsUser ==
    LoopDone =>
        /\ ItemsOf(db, loc.user) = {}
        /\ loc.commits = Cardinality(ItemsOf(loc.pre, loc.user))
        /\ db.items = loc.pre.items \ ItemsOf(loc.pre, loc.user)
        /\ \E u \in db.users : u.id = loc.user
        /\ db.users = loc.pre.users
        /\ db.user_roles = loc.pre.user_roles
        /\ db.roles = loc.pre.roles

\* the two items of a user that has a role were deleted in two rounds
C11_Witness ==
    /\ LoopDone
    /\ loc.commits = 2
    /\ RolesOf(loc.pre, loc.user) # {}

\* the username the committed rename cell assigned to its user
Assigned == (CHOOSE c \in loc.uow.renamed : c.id = loc.user).username

\* C12: a committed rename of a user to a username no other user has changes
\* the username of that user's row and nothing else: the user keeps its id,
\* its items, each with the user's id as user_id, and its roles, and every
\* other users, items, roles and user_roles row is as it was.
C12_RenameChangesUsernameOnly ==
    (Committed("rename") /\ \A u \in loc.pre.users : u.id # loc.user => u.username # Assigned) =>
        /\ db.users = {u \in loc.pre.users : u.id # loc.user} \cup {UserRow(loc.user, Assigned)}
        /\ Cardinality(db.users) = Cardinality(loc.pre.users)
        /\ ItemsOf(db, loc.user) = ItemsOf(loc.pre, loc.user)
        /\ RolesOf(db, loc.user) = RolesOf(loc.pre, loc.user)
        /\ db.items = loc.pre.items
        /\ db.roles = loc.pre.roles
        /\ db.user_roles = loc.pre.user_roles

\* a user that has an item and a role got a new username while another user
\* was in the table
C12_Witness ==
    /\ Committed("rename")
    /\ UserRow(loc.user, Assigned) \notin loc.pre.users
    /\ Cardinality(loc.pre.users) = 2
    /\ ItemsOf(loc.pre, loc.user) # {}
    /\ RolesOf(loc.pre, loc.user) # {}

====
